---- MODULE Spec2Model ----
(***************************************************************************)
(* Forecasting Studio: the strategy registry, the signal -> position ->    *)
(* equity pipeline, the metrics engine, run_backtest and run_walkforward   *)
(* (app/strategies.py, app/utils.py).                                      *)
(*                                                                         *)
(* Numbers.  Closes are positive integers.  Returns, equity, win rate,     *)
(* total return and drawdown are exact rationals <<n, d>> (d > 0, lowest   *)
(* terms).  A Sharpe ratio, mean/std*sqrt(252), is irrational in general;  *)
(* it is kept in fixed point with resolution 1, truncated toward zero.     *)
(* Timestamps are day numbers; isoformat/str render them as tagged values. *)
(***************************************************************************)
EXTENDS Integers, Sequences, FiniteSets, TLC

\* ---------------------------------------------------------------- bounds
\* longest price series handed to an entry point
MaxLen == 7

\* ------------------------------------------------------ program constants
\* trading-day annualisation constant of the Sharpe ratio
Annualization == 252
\* initial best_sharpe of the in-sample search (-1e9)
InitBestSharpe == -1000000000
\* defaults of SmaCross.__init__
DefaultFast == 10
DefaultSlow == 30

\* ------------------------------------------------------------- rationals
Abs(x) == IF x < 0 THEN -x ELSE x

RECURSIVE Gcd(_, _)
Gcd(a, b) == IF b = 0 THEN a ELSE Gcd(b, a % b)

\* the rational n/d in lowest terms with a positive denominator
Rat(n, d) ==
    LET s == IF d < 0 THEN -1 ELSE 1
        g == Gcd(Abs(n), Abs(d))
    IN  <<(s * n) \div g, (s * d) \div g>>

RZero == <<0, 1>>
ROne == <<1, 1>>
RAdd(x, y) == Rat(x[1] * y[2] + y[1] * x[2], x[2] * y[2])
RSub(x, y) == Rat(x[1] * y[2] - y[1] * x[2], x[2] * y[2])
RMul(x, y) == Rat(x[1] * y[1], x[2] * y[2])
RDiv(x, y) == Rat(x[1] * y[2], x[2] * y[1])
RLt(x, y) == x[1] * y[2] < y[1] * x[2]
RMax(x, y) == IF RLt(x, y) THEN y ELSE x
RMin(x, y) == IF RLt(y, x) THEN y ELSE x

RECURSIVE RSum(_)
RSum(s) == IF s = <<>> THEN RZero ELSE RAdd(Head(s), RSum(Tail(s)))

\* floor of the square root of a natural number
RECURSIVE ISqrtFrom(_, _)
ISqrtFrom(x, r) == IF (r + 1) * (r + 1) > x THEN r ELSE ISqrtFrom(x, r + 1)
ISqrt(x) == ISqrtFrom(x, 0)

\* ------------------------------------------------------ strategies.py
\* keys a parameter mapping may carry, in the order sorted() gives them
ParamNames == <<"fast", "slow">>
KeyRank(k) == CHOOSE r \in 1..Len(ParamNames) : ParamNames[r] = k

\* Python's None
None == [none |-> TRUE]

\* params or {}
\* variant: None is passed on instead of being replaced by {}
OrEmptyDropped(params) == params
OrEmpty(params) == IF params = None THEN <<>> ELSE params

\* SmaCross.__init__(**params): the instance, or the ValueError it raises
\* (cls(**None) is a TypeError)
SmaCrossInit(params) ==
    LET fast == IF "fast" \in DOMAIN params THEN params["fast"] ELSE DefaultFast
        slow == IF "slow" \in DOMAIN params THEN params["slow"] ELSE DefaultSlow
    IN  IF params = None
        THEN [ok |-> FALSE, err |-> "TypeError"]
        ELSE IF fast < 1 \/ slow < 1
        THEN [ok |-> FALSE, err |-> "InvalidParameters"]
        ELSE [ok |-> TRUE, cls |-> "SmaCross", fast |-> fast, slow |-> slow]

\* create_strategy(name, params) against registry reg: the instance, or the
\* ValueError('Unknown strategy: ...') it raises
\* variant: the class is built without looking the name up
create_strategy_unchecked(reg, name, params) == SmaCrossInit(OrEmpty(params))
create_strategy(reg, name, params) ==
    IF name \notin DOMAIN reg
    THEN [ok |-> FALSE, err |-> "UnknownStrategy"]
    ELSE SmaCrossInit(OrEmpty(params))

\* a column of a frame, held as a finite sequence
Column(f) == SubSeq(f, 1, Len(f))

\* close.rolling(window=w, min_periods=1).mean() at row t
RollingMean(close, w, t) ==
    LET lo == IF t - w + 1 < 1 THEN 1 ELSE t - w + 1
    IN  RDiv(RSum([k \in 1..(t - lo + 1) |-> <<close[lo + k - 1], 1>>]),
             <<t - lo + 1, 1>>)

\* SmaCross.generate_signals(df): rows [timestamp, signal]
\* variant: equal averages count as a long signal
CrossSignalInclusive(sma_fast, sma_slow) ==
    IF RLt(sma_fast, sma_slow) THEN -1 ELSE 1
CrossSignal(sma_fast, sma_slow) ==
    IF RLt(sma_slow, sma_fast) THEN 1 ELSE IF RLt(sma_fast, sma_slow) THEN -1 ELSE 0

Closes(df) == Column([t \in 1..Len(df) |-> df[t].close])

SignalRows(strat, df, close) ==
    Column([t \in 1..Len(df) |->
        [timestamp |-> df[t].timestamp,
         signal |-> CrossSignal(RollingMean(close, strat.fast, t),
                                RollingMean(close, strat.slow, t))]])

generate_signals(strat, df) == SignalRows(strat, df, Closes(df))

\* ------------------------------------------------------ utils.py: pipeline
\* df.merge(sig, on='timestamp', how='left')['signal'].fillna(0)
MergeSignal(df, sig) ==
    Column([t \in 1..Len(df) |->
        LET hits == {j \in 1..Len(sig) : sig[j].timestamp = df[t].timestamp}
        IN  IF hits = {} THEN 0 ELSE sig[CHOOSE j \in hits : TRUE].signal])

\* s.shift(1).fillna(0)
\* variant: the signal is traded in the period that produced it
Shift1Dropped(s) == s
Shift1(s) == Column([t \in 1..Len(s) |-> IF t = 1 THEN 0 ELSE s[t - 1]])

\* close.pct_change().fillna(0) of an integer column
PctChange(close) ==
    Column([t \in 1..Len(close) |->
        IF t = 1 THEN RZero ELSE RSub(Rat(close[t], close[t - 1]), ROne)])

\* (1 + r).cumprod()
AppendProd(prev, f) == Append(prev, IF prev = <<>> THEN f ELSE RMul(prev[Len(prev)], f))

RECURSIVE CumProd1p(_)
CumProd1p(r) ==
    IF r = <<>> THEN <<>>
    ELSE AppendProd(CumProd1p(SubSeq(r, 1, Len(r) - 1)), RAdd(ROne, r[Len(r)]))

\* the frame d of one pipeline run: signal, position, ret, strategy_ret, equity
StrategyRet(position, ret) ==
    Column([t \in 1..Len(ret) |-> RMul(<<position[t], 1>>, ret[t])])

PipelineFrame(df, signal, position, ret, sret) ==
    [timestamp |-> [t \in 1..Len(df) |-> df[t].timestamp],
     signal |-> signal, position |-> position, ret |-> ret,
     strategy_ret |-> sret, equity |-> CumProd1p(sret)]

PipelineOf(df, signal) ==
    PipelineFrame(df, signal, Shift1(signal), PctChange(Closes(df)),
                  StrategyRet(Shift1(signal), PctChange(Closes(df))))

Pipeline(df, strat) == PipelineOf(df, MergeSignal(df, generate_signals(strat, df)))

\* ------------------------------------------------------ utils.py: metrics
\* equity_curve.pct_change().fillna(0); 0/0 is NaN and is filled with 0
\* (a cumulative product that reaches 0 stays 0)
PctChangeFill(equity) ==
    Column([t \in 1..Len(equity) |->
        IF t = 1 THEN RZero
        ELSE IF equity[t - 1][1] = 0 THEN RZero
        ELSE RSub(RDiv(equity[t], equity[t - 1]), ROne)])

RMean(r) == RDiv(RSum(r), <<Len(r), 1>>)

\* ret.std() squared (ddof = 1); only asked for Len(r) >= 2
SquaredDev(r, m) == Column([t \in 1..Len(r) |-> RMul(RSub(r[t], m), RSub(r[t], m))])
RVar(r) == RDiv(RSum(SquaredDev(r, RMean(r))), <<Len(r) - 1, 1>>)

\* the Sharpe ratio of compute_metrics, in fixed point (truncated toward 0)
Floor(q) == q[1] \div q[2]

SharpeFrom(m, var) ==
    IF var[1] = 0 THEN 0                            \* vol == 0
    ELSE IF m[1] < 0
    THEN -ISqrt(Floor(RDiv(RMul(<<Annualization, 1>>, RMul(m, m)), var)))
    ELSE ISqrt(Floor(RDiv(RMul(<<Annualization, 1>>, RMul(m, m)), var)))

SharpeOfReturns(ret) ==
    IF Len(ret) < 2 THEN 0                          \* vol is NaN
    ELSE SharpeFrom(RMean(ret), RVar(ret))

SharpeOf(equity) == SharpeOfReturns(PctChangeFill(equity))

\* cum.cummax()
AppendMax(prev, x) == Append(prev, IF prev = <<>> THEN x ELSE RMax(prev[Len(prev)], x))

RECURSIVE CumMax(_)
CumMax(c) ==
    IF c = <<>> THEN <<>>
    ELSE AppendMax(CumMax(SubSeq(c, 1, Len(c) - 1)), c[Len(c)])

RECURSIVE RMinSeq(_)
RMinSeq(s) == IF Len(s) = 1 THEN s[1] ELSE RMin(Head(s), RMinSeq(Tail(s)))

\* the number of trade returns > 0
Wins(trade_returns) == Cardinality({t \in 1..Len(trade_returns) : trade_returns[t][1] > 0})

\* compute_metrics(equity_curve, trade_returns) -> BacktestReport
\* equity_curve / equity_curve.iloc[0]
Cum(equity) == Column([t \in 1..Len(equity) |-> RDiv(equity[t], equity[1])])

\* (cum / roll_max - 1).min()
Drawdowns(cum, roll_max) ==
    Column([t \in 1..Len(cum) |-> RSub(RDiv(cum[t], roll_max[t]), ROne)])
MaxDrawdown(cum) == RMinSeq(Drawdowns(cum, CumMax(cum)))

compute_metrics(equity, trade_returns) ==
    [total_return |-> RSub(Cum(equity)[Len(equity)], ROne),
     sharpe |-> SharpeOf(equity),
     max_drawdown |-> MaxDrawdown(Cum(equity)),
     win_rate |-> IF Len(trade_returns) > 0
                  THEN Rat(Wins(trade_returns), Len(trade_returns)) ELSE RZero,
     trades |-> Len(trade_returns)]

\* rendering of a timestamp by .isoformat() and by str()
IsoFormat(ts) == <<"iso", ts>>
Str(ts) == <<"str", ts>>

\* d.loc[d['position'].diff().abs().fillna(0) > 0, 'strategy_ret']
RECURSIVE TradeReturns(_, _)
TradeReturns(position, sret) ==
    IF Len(position) <= 1 THEN <<>>
    ELSE TradeReturns(SubSeq(position, 1, Len(position) - 1), SubSeq(sret, 1, Len(position) - 1))
         \o (IF Abs(position[Len(position)] - position[Len(position) - 1]) > 0
             THEN <<sret[Len(position)]>> ELSE <<>>)

\* run_backtest(df, strategy_name, params): the value returned or the error raised
BacktestOf(f) ==
    [ok |-> TRUE, d |-> f,
     value |-> [report |-> compute_metrics(f.equity, TradeReturns(f.position, f.strategy_ret)),
                equity |-> f.equity,
                timestamps |-> [t \in 1..Len(f.timestamp) |-> IsoFormat(f.timestamp[t])]]]

BacktestWith(df, strat) ==
    IF ~strat.ok THEN [ok |-> FALSE, err |-> strat.err]
    ELSE BacktestOf(Pipeline(df, strat))

run_backtest(reg, df, strategy_name, params) ==
    BacktestWith(df, create_strategy(reg, strategy_name, OrEmpty(params)))

\* ------------------------------------------------------ utils.py: grid
\* sorted(param_space.keys()); param_space is a sequence of <<key, values>>
\* in insertion order
RECURSIVE SortedKeys(_)
SortedKeys(keys) ==
    IF keys = {} THEN <<>>
    ELSE LET k == CHOOSE x \in keys : \A y \in keys : KeyRank(x) <= KeyRank(y)
         IN  <<k>> \o SortedKeys(keys \ {k})

\* param_space[k]
ValuesOf(param_space, k) ==
    param_space[CHOOSE j \in 1..Len(param_space) : param_space[j][1] = k][2]

RECURSIVE Flatten(_)
Flatten(ss) == IF ss = <<>> THEN <<>> ELSE Head(ss) \o Flatten(Tail(ss))

\* itertools.product(*values): the rightmost position varies fastest
Prefixed(first, rest) ==
    Flatten([a \in 1..Len(first) |-> [b \in 1..Len(rest) |-> <<first[a]>> \o rest[b]]])

RECURSIVE Product(_)
Product(values) ==
    IF values = <<>> THEN << <<>> >>
    ELSE Prefixed(Head(values), Product(Tail(values)))

\* _grid(param_space): the parameter dicts in enumeration order
\* dict(zip(keys, vals)) for every tuple vals
Zipped(keys, tuples) ==
    [c \in 1..Len(tuples) |->
        [k \in {keys[j] : j \in 1..Len(keys)} |->
            tuples[c][CHOOSE j \in 1..Len(keys) : keys[j] = k]]]

GridOver(param_space, keys) ==
    Zipped(keys, Product([j \in 1..Len(keys) |-> ValuesOf(param_space, keys[j])]))

Grid(param_space) ==
    GridOver(param_space, SortedKeys({param_space[j][1] : j \in 1..Len(param_space)}))

\* ------------------------------------------------------ utils.py: walk-forward
\* df.sort_values('timestamp').reset_index(drop=True)
RECURSIVE SortByTimestamp(_)
SortByTimestamp(rows) ==
    IF rows = <<>> THEN <<>>
    ELSE LET j == CHOOSE a \in 1..Len(rows) :
                     /\ \A b \in 1..Len(rows) : rows[a].timestamp <= rows[b].timestamp
                     /\ \A b \in 1..(a - 1) : rows[b].timestamp # rows[a].timestamp
         IN  <<rows[j]>> \o SortByTimestamp(SubSeq(rows, 1, j - 1) \o SubSeq(rows, j + 1, Len(rows)))

\* the in-sample search over the first Len(combos) combinations
\* if m.sharpe > best_sharpe: best_sharpe = m.sharpe; best_params = params
\* variant: a later combination with an equal Sharpe replaces the best
KeepLast(prev, params, f, m) ==
    IF m.sharpe >= prev.best_sharpe
    THEN [ok |-> TRUE, best_sharpe |-> m.sharpe, best_params |-> params,
          d |-> Append(prev.d, f)]
    ELSE [ok |-> TRUE, best_sharpe |-> prev.best_sharpe,
          best_params |-> prev.best_params, d |-> Append(prev.d, f)]
KeepBest(prev, params, f, m) ==
    IF m.sharpe > prev.best_sharpe
    THEN [ok |-> TRUE, best_sharpe |-> m.sharpe, best_params |-> params,
          d |-> Append(prev.d, f)]
    ELSE [ok |-> TRUE, best_sharpe |-> prev.best_sharpe, best_params |-> prev.best_params,
          d |-> Append(prev.d, f)]

\* the body of the for loop for one combination, after the search state prev
Evaluate(prev, params, f) == KeepBest(prev, params, f, compute_metrics(f.equity, f.strategy_ret))

GridStep(prev, params, strat, is_df) ==
    IF ~prev.ok THEN prev
    ELSE IF ~strat.ok THEN [ok |-> FALSE, err |-> strat.err, d |-> prev.d]
    ELSE Evaluate(prev, params, Pipeline(is_df, strat))

RECURSIVE GridSearch(_, _, _, _)
GridSearch(reg, strategy_name, is_df, combos) ==
    IF combos = <<>>
    THEN [ok |-> TRUE, best_sharpe |-> InitBestSharpe, best_params |-> None, d |-> <<>>]
    ELSE GridStep(GridSearch(reg, strategy_name, is_df, SubSeq(combos, 1, Len(combos) - 1)),
                  combos[Len(combos)],
                  create_strategy(reg, strategy_name, combos[Len(combos)]),
                  is_df)

\* sorted(xs)
RECURSIVE SortInts(_)
SortInts(xs) ==
    IF xs = <<>> THEN <<>>
    ELSE LET j == CHOOSE a \in 1..Len(xs) : \A b \in 1..Len(xs) : xs[a] <= xs[b]
         IN  <<xs[j]>> \o SortInts(SubSeq(xs, 1, j - 1) \o SubSeq(xs, j + 1, Len(xs)))

\* twice np.median(is_sharpes) (the median of an even count is a half-integer)
Middle2(s) ==
    IF Len(s) % 2 = 1 THEN 2 * s[(Len(s) + 1) \div 2]
    ELSE s[Len(s) \div 2] + s[Len(s) \div 2 + 1]

Median2(xs) == IF Len(xs) = 0 THEN 0 ELSE Middle2(SortInts(xs))

\* max(0.0, 1.0 - oos_sharpe / (abs(median_is) + 1e-9)), exactly: the record
\* [n, d, e] stands for (n + e*2*eps) / (d + e*2*eps), where eps = 1e-9 is
\* positive and smaller than the resolution of n and d (half Sharpe units)
\* variant: the median is used with its sign
OverfitRiskSigned(oos_sharpe, median2) ==
    IF oos_sharpe = 0 THEN [n |-> 1, d |-> 1, e |-> 0]
    ELSE IF median2 >= 0
         THEN IF median2 - 2 * oos_sharpe >= 0
              THEN [n |-> median2 - 2 * oos_sharpe, d |-> median2, e |-> 1]
              ELSE [n |-> 0, d |-> 1, e |-> 0]
         ELSE IF median2 - 2 * oos_sharpe >= 0
              THEN [n |-> 0, d |-> 1, e |-> 0]
              ELSE [n |-> 2 * oos_sharpe - median2, d |-> 0 - median2, e |-> -1]
OverfitRisk(oos_sharpe, median2) ==
    LET den == Abs(median2)
        num == den - 2 * oos_sharpe
    IN  IF oos_sharpe = 0 THEN [n |-> 1, d |-> 1, e |-> 0]
        ELSE IF num >= 0 THEN [n |-> num, d |-> den, e |-> 1]
        ELSE [n |-> 0, d |-> 1, e |-> 0]

\* ------------------------------------------------------ inputs
\* a frame of rows from closes, timestamps ascending as the loaders leave them
Frame(closes) == [t \in 1..Len(closes) |-> [timestamp |-> t, close |-> closes[t]]]
ClosePalette == {1, 2}
SeriesPool == {Frame(c) : c \in UNION {[1..n -> ClosePalette] : n \in 1..MaxLen}}

\* strategy names a caller passes; "momentum" is registered only by Register
StrategyNames == {"sma_cross", "momentum"}

\* parameter mappings handed to create_strategy and run_backtest
ParamsPool ==
    {None, <<>>, [fast |-> 1, slow |-> 2], [fast |-> 2, slow |-> 1],
     [fast |-> 0, slow |-> 2]}

\* parameter grids handed to run_walkforward
ParamSpacePool ==
    { << <<"slow", <<3, 2>> >>, <<"fast", <<2, 1>> >> >>,
      << <<"fast", <<1>> >>, <<"slow", <<2, 3>> >> >>,
      <<>>,
      << <<"fast", <<>> >>, <<"slow", <<2>> >> >>,
      << <<"fast", <<1, 0>> >> >> }

\* window lengths handed to run_walkforward (both >= 1)
Windows == 1..((MaxLen + 1) \div 2)

\* ------------------------------------------------------ state
VARIABLES
    REGISTRY,        \* strategies._REGISTRY: name -> class
    pc,              \* "idle", "wf_loop" (at the while of run_walkforward), "returned", "raised"
    fn,              \* the entry point called
    args,            \* its arguments
    df,              \* run_walkforward: the sorted frame
    i,               \* run_walkforward: the cursor
    results,         \* run_walkforward: segments so far
    oos_returns,     \* run_walkforward: accumulated out-of-sample strategy returns
    oos_timestamps,  \* run_walkforward: accumulated out-of-sample timestamps
    d,               \* frames of the in-sample runs (or of the backtest) of the last step
    d2,              \* frame of the out-of-sample run of the last step
    result,          \* the value returned
    error            \* the error raised

vars == <<REGISTRY, pc, fn, args, df, i, results, oos_returns, oos_timestamps,
          d, d2, result, error>>
locals == <<df, i, results, oos_returns, oos_timestamps>>

Init ==
    /\ REGISTRY = [n \in {"sma_cross"} |-> "SmaCross"]
    /\ pc = "idle"
    /\ fn = "none"
    /\ args = <<>>
    /\ df = <<>>
    /\ i = 0
    /\ results = <<>>
    /\ oos_returns = <<>>
    /\ oos_timestamps = <<>>
    /\ d = <<>>
    /\ d2 = None
    /\ result = None
    /\ error = "None"

\* register(name)(SmaCross)
Register ==
    /\ pc = "idle"
    /\ \E name \in StrategyNames \ DOMAIN REGISTRY :
           REGISTRY' = [n \in DOMAIN REGISTRY \cup {name} |-> "SmaCross"]
    /\ UNCHANGED <<pc, fn, args, locals, d, d2, result, error>>

\* a call of create_strategy(name, params)
CreateStrategy ==
    /\ pc = "idle"
    /\ \E name \in StrategyNames, params \in ParamsPool :
        /\ fn' = "create_strategy"
        /\ args' = [strategy_name |-> name, params |-> params]
        /\ \E r \in {create_strategy(REGISTRY, name, params)} :
               IF r.ok
               THEN pc' = "returned" /\ result' = r /\ error' = error
               ELSE pc' = "raised" /\ error' = r.err /\ result' = result
    /\ UNCHANGED <<REGISTRY, locals, d, d2>>

\* a call of run_backtest(df, strategy_name, params)
RunBacktest ==
    /\ pc = "idle"
    /\ \E frame \in SeriesPool, name \in StrategyNames, params \in ParamsPool :
        /\ fn' = "run_backtest"
        /\ args' = [df |-> frame, strategy_name |-> name, params |-> params]
        /\ \E r \in {run_backtest(REGISTRY, frame, name, params)} :
               IF r.ok
               THEN pc' = "returned" /\ result' = r.value /\ d' = <<r.d>> /\ error' = error
               ELSE pc' = "raised" /\ error' = r.err /\ result' = result /\ d' = d
    /\ UNCHANGED <<REGISTRY, locals, d2>>

\* run_walkforward(...) up to the while loop
WalkforwardStart ==
    /\ pc = "idle"
    /\ \E frame \in SeriesPool, name \in StrategyNames, param_space \in ParamSpacePool,
          insample_days \in Windows, outsample_days \in Windows :
        /\ fn' = "run_walkforward"
        /\ args' = [df |-> frame, strategy_name |-> name, param_space |-> param_space,
                    insample_days |-> insample_days, outsample_days |-> outsample_days]
        /\ df' = SortByTimestamp(frame)
    /\ results' = <<>>
    /\ oos_returns' = <<>>
    /\ oos_timestamps' = <<>>
    /\ i' = 0
    /\ pc' = "wf_loop"
    /\ UNCHANGED <<REGISTRY, d, d2, result, error>>

\* if oos_end > n: break
\* variant: a window that ends on the last row is dropped
LoopBreaksEarly(cursor, insample_days, outsample_days, n) ==
    cursor + insample_days + outsample_days >= n
LoopBreaks(cursor, insample_days, outsample_days, n) ==
    cursor + insample_days + outsample_days > n

\* i += outsample_days
\* variant: the cursor moves by one row
NextCursorByOne(cursor, outsample_days) == cursor + 1
NextCursor(cursor, outsample_days) == cursor + outsample_days

\* one iteration of the while loop: search in-sample, apply out-of-sample
WalkforwardIterate ==
    /\ pc = "wf_loop"
    /\ ~LoopBreaks(i, args.insample_days, args.outsample_days, Len(df))
    /\ \E is_df \in {SubSeq(df, i + 1, i + args.insample_days)},
          oos_df \in {SubSeq(df, i + args.insample_days + 1,
                             i + args.insample_days + args.outsample_days)} :
       \E search \in {GridSearch(REGISTRY, args.strategy_name, is_df, Grid(args.param_space))} :
          IF ~search.ok
          THEN /\ pc' = "raised" /\ error' = search.err
               /\ d' = search.d
               /\ UNCHANGED <<locals, d2>>
          ELSE \E strat \in {create_strategy(REGISTRY, args.strategy_name,
                                              OrEmpty(search.best_params))} :
               IF ~strat.ok
               THEN /\ pc' = "raised" /\ error' = strat.err
                    /\ d' = search.d
                    /\ UNCHANGED <<locals, d2>>
               ELSE \E f2 \in {Pipeline(oos_df, strat)} :
                    /\ d' = search.d
                    /\ d2' = f2
                    /\ oos_returns' = oos_returns \o f2.strategy_ret
                    /\ oos_timestamps' = oos_timestamps \o
                          [t \in 1..Len(oos_df) |-> IsoFormat(f2.timestamp[t])]
                    /\ results' = Append(results,
                          [is_range |-> <<Str(is_df[1].timestamp),
                                          Str(is_df[Len(is_df)].timestamp)>>,
                           oos_range |-> <<Str(oos_df[1].timestamp),
                                           Str(oos_df[Len(oos_df)].timestamp)>>,
                           best_params |-> search.best_params,
                           best_is_sharpe |-> search.best_sharpe])
                    /\ i' = NextCursor(i, args.outsample_days)
                    /\ UNCHANGED <<pc, error, df>>
    /\ UNCHANGED <<REGISTRY, fn, args, result>>

\* the returned dict, from the out-of-sample report
ResultOf(segments, oos_report, timestamps) ==
    [segments |-> segments,
     oos |-> [report |-> oos_report, timestamps |-> timestamps],
     overfit_risk |->
         OverfitRisk(oos_report.sharpe,
                     Median2([k \in 1..Len(segments) |-> segments[k].best_is_sharpe]))]

\* the aggregation after the loop
\* variant: a single out-of-sample return is treated as none
AggregateSparse(segments, returns, timestamps) ==
    IF Len(returns) <= 1
    THEN [segments |-> segments, oos |-> None, overfit_risk |-> None]
    ELSE ResultOf(segments, compute_metrics(CumProd1p(returns), returns), timestamps)
Aggregate(segments, returns, timestamps) ==
    IF Len(returns) = 0
    THEN [segments |-> segments, oos |-> None, overfit_risk |-> None]
    ELSE ResultOf(segments, compute_metrics(CumProd1p(returns), returns), timestamps)

\* the break of the while loop and the return
WalkforwardReturn ==
    /\ pc = "wf_loop"
    /\ LoopBreaks(i, args.insample_days, args.outsample_days, Len(df))
    /\ pc' = "returned"
    /\ result' = Aggregate(results, oos_returns, oos_timestamps)
    /\ UNCHANGED <<REGISTRY, fn, args, locals, d, d2, error>>

Next ==
    \/ Register
    \/ CreateStrategy
    \/ RunBacktest
    \/ WalkforwardStart
    \/ WalkforwardIterate
    \/ WalkforwardReturn

Spec == Init /\ [][Next]_vars

\* ====================================================== properties
Walkforward == fn = "run_walkforward"
Terminal == pc \in {"returned", "raised"}
Returned(f) == fn = f /\ pc = "returned"
\* the series has room for at least one window
LongEnough == Len(df) >= args.insample_days + args.outsample_days
\* the rows of the k-th in-sample and out-of-sample windows (k = 1, 2, ...)
InSampleWindow(k) ==
    SubSeq(df, (k - 1) * args.outsample_days + 1,
               (k - 1) * args.outsample_days + args.insample_days)
OosWindow(k) ==
    SubSeq(df, (k - 1) * args.outsample_days + args.insample_days + 1,
               k * args.outsample_days + args.insample_days)
RangeOf(rows) == <<Str(rows[1].timestamp), Str(rows[Len(rows)].timestamp)>>

\* ---------------------------------------------------------------- C1
\* the cursor values of the claim: multiples of outsample_days whose
\* out-of-sample window ends inside the series
Cursors ==
    {c \in 0..Len(df) : /\ c % args.outsample_days = 0
                        /\ c + args.insample_days + args.outsample_days <= Len(df)}

C1_Returned ==
    Returned("run_walkforward") =>
        /\ Len(result.segments) = Cardinality(Cursors)
        /\ \A k \in 1..Len(result.segments) :
              /\ (k - 1) * args.outsample_days \in Cursors
              /\ result.segments[k].is_range = RangeOf(InSampleWindow(k))
              /\ Len(InSampleWindow(k)) = args.insample_days
              /\ result.segments[k].oos_range = RangeOf(OosWindow(k))
              /\ Len(OosWindow(k)) = args.outsample_days
        /\ result.segments # <<>> =>
              Len(result.oos.timestamps) = Cardinality(Cursors) * args.outsample_days
        /\ (Len(df) = 6 /\ args.insample_days = 3 /\ args.outsample_days = 1) =>
              (Len(result.segments) = 3 /\ Len(result.oos.timestamps) = 3)

\* an iteration that goes round the loop moves the cursor forward and keeps
\* it inside the series, so the loop ends after at most Len(df) iterations
C1_Progress ==
    (pc = "wf_loop" /\ pc' = "wf_loop") =>
        (i' > i /\ i' + args.insample_days <= Len(df))

\* C1: for n rows, insample_days >= 1 and outsample_days >= 1, a
\* run_walkforward that returns has emitted exactly one segment per cursor
\* value 0, outsample_days, 2*outsample_days, ... with
\* i + insample_days + outsample_days <= n, in that order, over the windows
\* series[i : i+insample_days] and series[i+insample_days :
\* i+insample_days+outsample_days], never a partial one (6 rows, 3 and 1 give
\* 3 segments and 3 out-of-sample periods); every iteration advances the
\* cursor, so the loop terminates.
C1_OneSegmentPerCursor == [](C1_Returned) /\ [][C1_Progress]_vars

C1_Witness ==
    /\ Returned("run_walkforward")
    /\ Len(df) = 6 /\ args.insample_days = 3 /\ args.outsample_days = 1
    /\ Len(result.segments) = 3

\* ---------------------------------------------------------------- C2
\* the in-sample Sharpe of one combination on one window
ComboSharpe(window, params) == SharpeOf(Pipeline(window, SmaCrossInit(params)).equity)

\* the first index that attains the maximum of a non-empty sequence
FirstArgMax(sh) ==
    CHOOSE c \in 1..Len(sh) :
        /\ \A b \in 1..Len(sh) : sh[b] <= sh[c]
        /\ \A b \in 1..(c - 1) : sh[b] < sh[c]

\* position of a value in the candidate list of a key
PosIn(param_space, key, v) ==
    CHOOSE j \in 1..Len(ValuesOf(param_space, key)) : ValuesOf(param_space, key)[j] = v

KeysOf(param_space) == {param_space[j][1] : j \in 1..Len(param_space)}

\* p comes before q in the cartesian product over the keys sorted by name
\* ("fast" before "slow"), the last key varying fastest
ProductBefore(param_space, p, q) ==
    \/ /\ "fast" \in KeysOf(param_space)
       /\ PosIn(param_space, "fast", p["fast"]) < PosIn(param_space, "fast", q["fast"])
    \/ /\ "fast" \in KeysOf(param_space) => p["fast"] = q["fast"]
       /\ "slow" \in KeysOf(param_space)
       /\ PosIn(param_space, "slow", p["slow"]) < PosIn(param_space, "slow", q["slow"])

\* the in-sample Sharpe of each of the first c combinations on one window
RECURSIVE ComboSharpes(_, _, _)
ComboSharpes(window, G, c) ==
    IF c = 0 THEN <<>>
    ELSE Append(ComboSharpes(window, G, c - 1), ComboSharpe(window, G[c]))

IsFirstBest(seg, G, sh) ==
    /\ seg.best_params = G[FirstArgMax(sh)]
    /\ seg.best_is_sharpe = sh[FirstArgMax(sh)]

SegmentIsFirstBest(seg, window, G) ==
    IsFirstBest(seg, G, ComboSharpes(window, G, Len(G)))

EnumeratedInProductOrder(param_space, G) ==
    /\ \A c \in 1..Len(G) : DOMAIN G[c] = KeysOf(param_space)
    /\ \A a, b \in 1..Len(G) : a < b => ProductBefore(param_space, G[a], G[b])

\* C2: in every window of a run_walkforward that returns, best_params is the
\* first combination, in the cartesian-product enumeration over sorted keys,
\* whose in-sample Sharpe is the maximum over all combinations (a tie keeps
\* the first seen), and best_is_sharpe is that maximum.
C2_FirstBestCombination ==
    (Returned("run_walkforward") /\ Grid(args.param_space) # <<>>) =>
        /\ EnumeratedInProductOrder(args.param_space, Grid(args.param_space))
        /\ \A k \in 1..Len(result.segments) :
              SegmentIsFirstBest(result.segments[k], InSampleWindow(k),
                                 Grid(args.param_space))

\* the second and the fourth combination tie for the maximum, above the
\* first and the third, and the second is kept
TieKeepsFirst(seg, G, sh) ==
    /\ sh[2] = sh[4] /\ sh[1] < sh[2] /\ sh[3] < sh[2]
    /\ seg.best_params = G[2] /\ seg.best_is_sharpe = sh[2]

C2_Witness ==
    /\ Returned("run_walkforward")
    /\ Len(Grid(args.param_space)) = 4
    /\ \E k \in 1..Len(result.segments) :
          TieKeepsFirst(result.segments[k], Grid(args.param_space),
                        ComboSharpes(InSampleWindow(k), Grid(args.param_space), 4))

\* ---------------------------------------------------------------- C3
NoCombinations == Walkforward /\ Grid(args.param_space) = <<>>

C3_NoCombinations ==
    (NoCombinations /\ args.strategy_name \in DOMAIN REGISTRY /\ LongEnough) =>
        /\ Terminal => Returned("run_walkforward") /\ result.segments # <<>>
                       /\ result.oos # None /\ result.overfit_risk # None
        /\ \A k \in 1..Len(results) :
              /\ results[k].best_params = None
              /\ results[k].best_is_sharpe = InitBestSharpe
        /\ results # <<>> =>
              d2 = Pipeline(OosWindow(Len(results)),
                            [ok |-> TRUE, cls |-> "SmaCross",
                             fast |-> DefaultFast, slow |-> DefaultSlow])

\* the empty mapping {} is not such a space: its product is the single
\* combination {}, which the search selects
C3_EmptyMappingIsOneCombination ==
    (Walkforward /\ args.param_space = <<>>) =>
        /\ Grid(args.param_space) = << <<>> >>
        /\ \A k \in 1..Len(results) : results[k].best_params = <<>>

UnknownName == fn # "none" /\ args.strategy_name \notin DOMAIN REGISTRY

\* C4 as claimed: every entry point called with an unregistered name ends in
\* UnknownStrategy
C4_AsClaimed ==
    (UnknownName /\ Terminal) => (pc = "raised" /\ error = "UnknownStrategy")

C4_Terminal ==
    (UnknownName /\ Terminal) =>
        IF Walkforward /\ ~LongEnough
        THEN /\ pc = "returned"
             /\ result = [segments |-> <<>>, oos |-> None, overfit_risk |-> None]
        ELSE pc = "raised" /\ error = "UnknownStrategy" /\ result = None

\* C4, amended: for an unregistered name, create_strategy, run_backtest, and
\* run_walkforward on a series with room for at least one window end in
\* UnknownStrategy and return nothing; run_walkforward on a shorter series
\* never consults the registry and returns the empty result; no call changes
\* the registry.
C4_UnknownStrategy ==
    [](C4_Terminal) /\ [][pc' # "idle" => REGISTRY' = REGISTRY]_vars

C4_Witness ==
    /\ UnknownName /\ Walkforward /\ LongEnough
    /\ pc = "raised" /\ error = "UnknownStrategy"

\* ---------------------------------------------------------------- C5
FrameLagged(f) ==
    /\ f.position[1] = 0
    /\ \A t \in 2..Len(f.position) : f.position[t] = f.signal[t - 1]
    /\ f.strategy_ret[1] = RZero
    /\ f.equity[1] = ROne
    /\ \A t \in 2..Len(f.position) :
          f.strategy_ret[t] = RMul(<<f.signal[t - 1], 1>>, f.ret[t])

\* C5: in every pipeline run (the backtest, every in-sample run and the
\* out-of-sample run of each window) position[0] = 0 and position[t] =
\* signal[t-1]; so strategy_ret[0] = 0, equity[0] = 1 and the return of
\* period t depends on no signal of period t or later.
C5_PositionLag ==
    /\ \A c \in 1..Len(d) : FrameLagged(d[c])
    /\ d2 # None => FrameLagged(d2)

C5_Witness ==
    /\ d2 # None /\ \E t \in 1..Len(d2.position) : d2.position[t] = -1
    /\ d # <<>> /\ \E t \in 1..Len(d[1].position) : d[1].position[t] = 1

\* ---------------------------------------------------------------- C6
\* the periods at which the position differs from the period before
Changes(position) == {t \in 2..Len(position) : position[t] # position[t - 1]}
WinningChanges(f) == {t \in Changes(f.position) : f.strategy_ret[t][1] > 0}

\* the out-of-sample frame of segment k, recomputed from its best_params
OosFrame(k) == Pipeline(OosWindow(k), SmaCrossInit(OrEmpty(results[k].best_params)))

RECURSIVE OosChanges(_)
OosChanges(k) ==
    IF k = 0 THEN 0 ELSE OosChanges(k - 1) + Cardinality(Changes(OosFrame(k).position))
RECURSIVE OosWinningChanges(_)
OosWinningChanges(k) ==
    IF k = 0 THEN 0 ELSE OosWinningChanges(k - 1) + Cardinality(WinningChanges(OosFrame(k)))

ReportCountsChanges(report, changes, wins) ==
    /\ report.trades = changes
    /\ report.win_rate = IF changes = 0 THEN RZero ELSE Rat(wins, changes)

\* C6: in the report of run_backtest and in the oos report of
\* run_walkforward, trades is the number of periods whose position differs
\* from the period before, and win_rate is the share of those periods with
\* strategy_ret > 0 (0 when there are none).
C6_TradesArePositionChanges ==
    /\ Returned("run_backtest") =>
          ReportCountsChanges(result.report, Cardinality(Changes(d[1].position)),
                              Cardinality(WinningChanges(d[1])))
    /\ (Returned("run_walkforward") /\ result.oos # None) =>
          ReportCountsChanges(result.oos.report, OosChanges(Len(results)),
                              OosWinningChanges(Len(results)))

\* the half of C6 that the code satisfies: the report of run_backtest
C6_BacktestOnly ==
    Returned("run_backtest") =>
        ReportCountsChanges(result.report, Cardinality(Changes(d[1].position)),
                            Cardinality(WinningChanges(d[1])))

\* ---------------------------------------------------------------- C7
IsSharpes == [k \in 1..Len(result.segments) |-> result.segments[k].best_is_sharpe]
RiskPositive(r) == r.n > 0 \/ (r.n = 0 /\ r.e = 1)
RiskNonNegative(r) == r.n >= 0 /\ r.d >= 0 /\ r.e \in {0, 1} /\ (r.d > 0 \/ r.e = 1)

\* max(0, 1 - s/(|m2|/2 + eps)) for s and m2 / 2 in Sharpe units, as a value
\* (n + e*2eps) / (d + e*2eps)
RiskFormula(s, m2) ==
    IF s = 0 THEN [n |-> 1, d |-> 1, e |-> 0]
    ELSE IF Abs(m2) - 2 * s >= 0 THEN [n |-> Abs(m2) - 2 * s, d |-> Abs(m2), e |-> 1]
    ELSE [n |-> 0, d |-> 1, e |-> 0]

\* C7: a non-null overfit_risk equals max(0, 1 - oos_sharpe /
\* (|median(best in-sample Sharpes)| + 1e-9)), is never negative, and is > 0
\* whenever the out-of-sample Sharpe is below the median of the segments'
\* best in-sample Sharpes.
C7_OverfitRisk ==
    (Returned("run_walkforward") /\ result.overfit_risk # None) =>
        /\ result.overfit_risk = RiskFormula(result.oos.report.sharpe, Median2(IsSharpes))
        /\ RiskNonNegative(result.overfit_risk)
        /\ 2 * result.oos.report.sharpe < Median2(IsSharpes) =>
              RiskPositive(result.overfit_risk)

\* an out-of-sample Sharpe below a negative median of the in-sample ones
C7_Witness ==
    /\ Returned("run_walkforward") /\ result.overfit_risk # None
    /\ Median2(IsSharpes) < 0
    /\ 2 * result.oos.report.sharpe < Median2(IsSharpes)
    /\ result.overfit_risk.n > result.overfit_risk.d

\* ---------------------------------------------------------------- C8
C8_Shape ==
    Returned("run_walkforward") =>
        /\ ~LongEnough =>
              result = [segments |-> <<>>, oos |-> None, overfit_risk |-> None]
        /\ LongEnough =>
              (result.segments # <<>> /\ result.oos # None /\ result.overfit_risk # None)
        /\ result.oos = None <=> result.segments = <<>>

\* every combination of the grid is accepted by the strategy's constructor
GridAccepted ==
    \A c \in 1..Len(Grid(args.param_space)) : SmaCrossInit(Grid(args.param_space)[c]).ok

\* with a registered strategy and accepted parameters the call returns
C8_Returns ==
    (Walkforward /\ Terminal /\ args.strategy_name \in DOMAIN REGISTRY /\ GridAccepted)
        => pc = "returned"

C9_LoopInvariant ==
    Walkforward =>
        /\ pc = "wf_loop" => i = Len(results) * args.outsample_days
        /\ Len(oos_returns) = Len(results) * args.outsample_days
        /\ Len(oos_timestamps) = Len(results) * args.outsample_days
        /\ \A j \in 1..Len(oos_timestamps) :
              oos_timestamps[j] = IsoFormat(df[args.insample_days + j].timestamp)
        /\ \A j, k \in 1..Len(oos_timestamps) :
              j < k => oos_timestamps[j][2] < oos_timestamps[k][2]

C9_Witness ==
    /\ Walkforward /\ pc = "wf_loop"
    /\ Len(results) = 2 /\ args.outsample_days = 2 /\ i = 4

\* ---------------------------------------------------------------- C10
AllZero(returns) == \A t \in 1..Len(returns) : returns[t] = RZero

\* C10: with sma_cross the first two out-of-sample strategy returns of every
\* window are 0; so for outsample_days <= 2 every accumulated out-of-sample
\* return is 0, the oos report has total_return = 0 and sharpe = 0, and
\* overfit_risk is exactly 1.
C10_FlatOutOfSample ==
    Walkforward =>
        /\ d2 # None => AllZero(SubSeq(d2.strategy_ret, 1,
                                       IF Len(d2.strategy_ret) < 2 THEN 1 ELSE 2))
        /\ args.outsample_days <= 2 => AllZero(oos_returns)
        /\ (pc = "returned" /\ args.outsample_days <= 2 /\ result.segments # <<>>) =>
              /\ result.oos.report.total_return = RZero
              /\ result.oos.report.sharpe = 0
              /\ result.overfit_risk = [n |-> 1, d |-> 1, e |-> 0]

\* two-period windows over moving closes, after a search that found a
\* non-zero in-sample Sharpe
C10_Witness ==
    /\ Returned("run_walkforward") /\ args.outsample_days = 2
    /\ Len(result.segments) >= 2
    /\ result.segments[1].best_is_sharpe # 0
    /\ d2.ret[2] # RZero
    /\ result.overfit_risk = [n |-> 1, d |-> 1, e |-> 0]
====
